---- MODULE Spec2Model ----
(***************************************************************************)
(* A model of chainloader's Loader (src/index.js): the load pipeline       *)
(* (parse -> identity lookup -> shared key -> batched fetch 1 -> permission*)
(* recovery -> batched fetch 2 -> decrypt -> sort) as the promise chain    *)
(* executes it, one action per callback, and the Transform stage built on  *)
(* it.  Parsed transactions are objects on a heap: load mutates them in    *)
(* place, and a caller may hand the same object to several calls.          *)
(*                                                                         *)
(* The collaborators (tx decoder, identity lookup, keeper, permission      *)
(* codec, cipher, ECDH) are fixed tables over a small universe of          *)
(* transactions, addresses, keys and blobs.                                *)
(***************************************************************************)
EXTENDS Integers, Sequences, FiniteSets, TLC

\* ------------------------------------------------------------------ bounds

\* Longest batch handed to one load call in the single-call specification.
MaxBatch == 3
\* Number of load calls (stream units) of the multi-call specifications.
MaxCalls == 2
\* Longest batch handed to each call of the multi-call specifications.
MaxConcBatch == 2
\* Number of units written to the Transform stage.
MaxUnits == 3

Calls == 1..MaxCalls
\* The units written to the stage; unit u is loaded by load call u.
Units == 1..MaxUnits
\* Every load call of any specification.
AllCalls == Calls \cup Units

\* ------------------------------------------------- values shared by tables

\* JavaScript's undefined, for string-valued fields and for keeper misses.
Undef == "undefined"
\* undefined, for key-valued fields (shared secret, decryption key).
NoKey == << >>
\* undefined, for _pIdx (a deleted or never assigned property).
NoIdx == -1
\* An identity lookup that missed or rejected: allSettled's r.value is undefined.
NoMatch == [key |-> [value |-> 0, priv |-> 0]]

IsMatch(m) == m.key.value # 0

\* Private keys are the numbers above PrivBase, public keys those up to it.
PrivBase == 10

\* ------------------------------------------------------- the collaborators

\* The raw transactions of the universe, named by what happens to them.
RawTxs ==
  { "bad",          \* no OP_RETURN data with the prefix: TxInfo.parse gives nothing
    "pub1",         \* public, file stored
    "pubGone",      \* public, file not in the keeper
    "perm1",        \* permission, sender has the private key, file encrypted
    "perm2",        \* permission, recipient has the private key, file in the clear
    "permMiss",     \* permission, sender's addresses resolve to no identity
    "permNoPriv",   \* permission, neither party has a private key
    "permBadKey",   \* permission, payload encrypted under another pair's secret
    "permBadBlob",  \* permission, stored record does not decode
    "permBadFile",  \* permission, file does not decrypt under the record's key
    "permGoneBlob", \* permission, record not in the keeper
    "permGoneFile"  \* permission, file not in the keeper
  }

\* TxInfo.parse(tx, networkName, prefix): the parsed fields, or nothing.
Parseable(raw) == raw # "bad"

TxTypeOf(raw) == IF raw \in {"pub1", "pubGone"} THEN "public" ELSE "permission"

TxDataOf(raw) ==
  CASE raw = "pub1"         -> "B_f1"
    [] raw = "pubGone"      -> "B_f0"
    [] raw = "perm1"        -> "EK1"
    [] raw = "perm2"        -> "EK2"
    [] raw = "permMiss"     -> "EK1"
    [] raw = "permNoPriv"   -> "EK1"
    [] raw = "permBadKey"   -> "EK1"
    [] raw = "permBadBlob"  -> "EK3"
    [] raw = "permBadFile"  -> "EK4"
    [] raw = "permGoneBlob" -> "EK5"
    [] raw = "permGoneFile" -> "EK6"
    [] OTHER                -> Undef

AddressesFromOf(raw) ==
  CASE raw = "perm2"        -> << "ax", "a2" >>
    [] raw = "permMiss"     -> << "", "ax" >>
    [] raw = "permNoPriv"   -> << "a2" >>
    [] raw = "permBadKey"   -> << "a3" >>
    [] raw \in {"pub1", "pubGone"} -> << "ax" >>
    [] OTHER                -> << "a1" >>

AddressesToOf(raw) ==
  CASE raw = "perm2"        -> << "a2", "a1" >>
    [] raw = "permNoPriv"   -> << "a4" >>
    [] raw \in {"pub1", "pubGone"} -> << "a2" >>
    [] OTHER                -> << "a2" >>

\* The identity directory behind this.lookup(address, true): identities 1 and 3
\* hold a private key, 2 and 4 only a public key; any other address misses.
\* Identity n has public key n and, if it has one, private key PrivBase + n.
LookupResult(addr) ==
  CASE addr = "a1" -> [key |-> [value |-> 1, priv |-> PrivBase + 1]]
    [] addr = "a2" -> [key |-> [value |-> 2, priv |-> 0]]
    [] addr = "a3" -> [key |-> [value |-> 3, priv |-> PrivBase + 3]]
    [] addr = "a4" -> [key |-> [value |-> 4, priv |-> 0]]
    [] OTHER       -> NoMatch

\* utils.sharedEncryptionKey(priv, pub): ECDH between the owner of priv and
\* the owner of pub, the same secret from either side of a pair.
SharedEncryptionKey(priv, pub) ==
  LET own == priv - PrivBase
  IN  IF own <= pub THEN << own, pub >> ELSE << pub, own >>

\* utils.decrypt(bytes, key): the plaintext, or Undef when it throws.
Decrypt(bytes, k) ==
  CASE bytes = "EK1" /\ k = << 1, 2 >> -> "B_pk1"
    [] bytes = "EK2" /\ k = << 1, 2 >> -> "B_pk2"
    [] bytes = "EK3" /\ k = << 1, 2 >> -> "B_pk3"
    [] bytes = "EK4" /\ k = << 1, 2 >> -> "B_pk4"
    [] bytes = "EK5" /\ k = << 1, 2 >> -> "B_pk5"
    [] bytes = "EK6" /\ k = << 1, 2 >> -> "B_pk6"
    [] bytes = "C1"  /\ k = << 7 >>    -> "P1"
    [] OTHER                           -> Undef

\* Buffer.toString('hex'): the keeper's keys are the hex strings of key bytes.
ToHex(bytes) ==
  CASE bytes = "B_f1"  -> "f1"
    [] bytes = "B_f0"  -> "f0"
    [] bytes = "B_pk1" -> "pk1"
    [] bytes = "B_pk2" -> "pk2"
    [] bytes = "B_pk3" -> "pk3"
    [] bytes = "B_pk4" -> "pk4"
    [] bytes = "B_pk5" -> "pk5"
    [] bytes = "B_pk6" -> "pk6"
    [] OTHER           -> "hex"

\* The keeper's content: keeper.getMany(keys) answers each key with this.
KeeperGet(k) ==
  CASE k = "f1"  -> "F1"
    [] k = "pk1" -> "EP1"
    [] k = "pk2" -> "EP2"
    [] k = "pk3" -> "JUNK"
    [] k = "pk4" -> "EP4"
    [] k = "pk6" -> "EP6"
    [] k = "fk1" -> "C1"
    [] k = "fk2" -> "P2"
    [] k = "fk4" -> "C1"
    [] OTHER     -> Undef

\* Permission.recover(data, sharedKey): the permission record, or Undef when it
\* throws.
Recover(data, sharedKey) ==
  CASE data = "EP1" /\ sharedKey = << 1, 2 >> -> "permission1"
    [] data = "EP2" /\ sharedKey = << 1, 2 >> -> "permission2"
    [] data = "EP4" /\ sharedKey = << 1, 2 >> -> "permission4"
    [] data = "EP6" /\ sharedKey = << 1, 2 >> -> "permission6"
    [] OTHER                                  -> Undef

\* permission.fileKeyString()
FileKeyString(p) ==
  CASE p = "permission1" -> "fk1"
    [] p = "permission2" -> "fk2"
    [] p = "permission4" -> "fk4"
    [] p = "permission6" -> "fk6"
    [] OTHER             -> Undef

\* permission.decryptionKeyBuf(): permission2's file is stored in the clear.
DecryptionKeyBuf(p) ==
  CASE p = "permission1" -> << 7 >>
    [] p = "permission4" -> << 8 >>
    [] p = "permission6" -> << 7 >>
    [] OTHER             -> NoKey

\* ------------------------------------------------------------------- state

VARIABLES
  hasLookup,     \* whether options.lookup was given (this.lookup is set)
  heap,          \* the parsed-transaction objects, by reference
  pc,            \* per load call: where its promise chain stands
  input,         \* per load call: the txs it was given
  tasks,         \* per load call: the promises of txs.map(this._parseTx)
  parsedTxs,     \* per load call: load's parsedTxs (references)
  shared,        \* per load call: load's shared (references)
  results,       \* per load call: load's results (references, with their origin)
  req1,          \* per load call: the keys of the first getMany
  req2,          \* per load call: the keys of the second getMany
  getManyCalls,  \* per load call: how often keeper.getMany was invoked
  keeperFailed,  \* per load call: whether a getMany of it rejected
  events,        \* per load call: the events emitted while it ran
  ret,           \* per load call: the collection it resolved with
  inbox,         \* stream: units written and buffered by the Writable side
  writing,       \* stream: the unit whose write callback is pending (0: none)
  pushed,        \* stream: the items pushed downstream
  errors,        \* stream: the 'error' events emitted
  doneCalls,     \* stream: per unit, how often _transform called done()
  unit           \* stream: per unit, where its _transform stands

loadVars == << hasLookup, heap, pc, input, tasks, parsedTxs, shared, results,
               req1, req2, getManyCalls, keeperFailed, events, ret >>
streamVars == << inbox, writing, pushed, errors, doneCalls, unit >>
vars == << loadVars, streamVars >>

\* --------------------------------------------------------- parsed objects

\* What TxInfo.parse returns for a parseable raw transaction: the decoded
\* fields; everything load adds later is still undefined.
ParsedOf(raw) ==
  [ txId                |-> raw,
    txType              |-> TxTypeOf(raw),
    txData              |-> TxDataOf(raw),
    addressesFrom       |-> AddressesFromOf(raw),
    addressesTo         |-> AddressesToOf(raw),
    from                |-> NoMatch,
    to                  |-> NoMatch,
    key                 |-> Undef,
    encryptedKey        |-> Undef,
    sharedKey           |-> NoKey,
    permissionKey       |-> Undef,
    encryptedPermission |-> Undef,
    permission          |-> Undef,
    encryptedData       |-> Undef,
    data                |-> Undef,
    pIdx                |-> NoIdx ]

\* An element of load's input: a raw transaction, or a reference to an object
\* that is already parsed.
Raw(name) == [raw |-> name, ref |-> 0]
Ref(h) == [raw |-> Undef, ref |-> h]

\* TxInfo.validate(tx): true of a parsed object, false of a raw transaction.
Validate(tx) == tx.ref # 0

\* ------------------------------------------------------- _lookupParties

Min(S) == CHOOSE x \in S : \A y \in S : x <= y
Max(S) == CHOOSE x \in S : \A y \in S : x >= y

\* One lookup of _lookupParties, as allSettled reports it: a falsy address is
\* rejected without asking, a miss or a rejection has no value.
LookupOne(addr) == IF addr = "" THEN NoMatch ELSE LookupResult(addr)

\* Mutant of AllSettled: the results in the order the lookups settled.
SettledInArrivalOrder(addrs, arrival) ==
  [k \in DOMAIN arrival |-> LookupOne(addrs[arrival[k]])]

\* Q.allSettled(lookups), mapped to r.value: the result of every lookup at the
\* position of its address, in whatever order the lookups settled (arrival
\* lists the positions in that order).
AllSettled(addrs, arrival) == [k \in DOMAIN addrs |-> LookupOne(addrs[k])]

\* results.slice(0, from.length).some(...): the first truthy sender result.
MatchFrom(rs) ==
  LET hits == { i \in DOMAIN rs : IsMatch(rs[i]) }
  IN  IF hits = {} THEN NoMatch ELSE rs[Min(hits)]

\* Mutant of MatchTo: the first truthy recipient result, the sender's own
\* included.
MatchToAny(mfrom, rs) ==
  LET hits == { i \in DOMAIN rs : IsMatch(rs[i]) /\ IsMatch(mfrom) }
  IN  IF hits = {} THEN NoMatch ELSE rs[Min(hits)]

\* results.slice(from.length).some(...): the first truthy recipient result
\* whose key differs from the sender's; none without a sender.
MatchTo(mfrom, rs) ==
  LET hits == { i \in DOMAIN rs :
                  /\ IsMatch(rs[i])
                  /\ IsMatch(mfrom)
                  /\ mfrom.key.value # rs[i].key.value }
  IN  IF hits = {} THEN NoMatch ELSE rs[Min(hits)]

\* _lookupParties(from, to): {} without this.lookup, else {from, to} out of
\* the settled lookups of from.concat(to).
LookupParties(lk, from, to, arrival) ==
  IF ~lk
    THEN [from |-> NoMatch, to |-> NoMatch]
    ELSE LET settled == AllSettled(from \o to, arrival)
             rfrom   == SubSeq(settled, 1, Len(from))
             rto     == SubSeq(settled, Len(from) + 1, Len(settled))
         IN  [from |-> MatchFrom(rfrom), to |-> MatchTo(MatchFrom(rfrom), rto)]

\* ---------------------------------------------------------- _getSharedKey

\* Mutant of GetSharedKey: only the sender's private key is tried.
GetSharedKeySenderOnly(from, to) ==
  IF ~(IsMatch(from) /\ IsMatch(to)) \/ from.key.priv = 0
    THEN NoKey
    ELSE SharedEncryptionKey(from.key.priv, to.key.value)

\* _getSharedKey(from, to): undefined unless both parties are there and one
\* has a private key; the sender's is tried first.
GetSharedKey(from, to) ==
  IF ~(IsMatch(from) /\ IsMatch(to))
    THEN NoKey
    ELSE LET priv == IF from.key.priv # 0 THEN from.key.priv ELSE to.key.priv
             pub  == IF from.key.priv # 0 THEN to.key.value ELSE from.key.value
         IN  IF priv # 0 /\ pub # 0
               THEN SharedEncryptionKey(priv, pub)
               ELSE NoKey

\* --------------------------------------------------------- _processTxInfo

\* Mutant of ProcessTxInfo: a missing secret or a failed decryption does not
\* reject.
ProcessTxInfoNoReject(p, lk, arrival) ==
  LET m  == LookupParties(lk, p.addressesFrom, p.addressesTo, arrival)
      p1 == [p EXCEPT !.from = m.from, !.to = m.to]
  IN  IF p.txType = "public"
        THEN [obj |-> [p1 EXCEPT !.key = ToHex(p.txData)], ok |-> TRUE]
        ELSE LET sk == GetSharedKey(m.from, m.to)
                 p2 == [p1 EXCEPT !.encryptedKey = p.txData, !.sharedKey = sk]
                 d  == Decrypt(p.txData, sk)
             IN  IF sk = NoKey \/ d = Undef
                   THEN [obj |-> p2, ok |-> TRUE]
                   ELSE [obj |-> [p2 EXCEPT !.key = ToHex(d),
                                            !.permissionKey = ToHex(d)],
                         ok |-> TRUE]

\* Mutant of ProcessTxInfo: a key the object already carries is kept
\* (parsed.key = parsed.key || ...), so reprocessing looks up a stale key.
ProcessTxInfoKeepKey(p, lk, arrival) ==
  LET m  == LookupParties(lk, p.addressesFrom, p.addressesTo, arrival)
      p1 == [p EXCEPT !.from = m.from, !.to = m.to]
      keep(k) == IF p.key # Undef THEN p.key ELSE k
  IN  IF p.txType = "public"
        THEN [obj |-> [p1 EXCEPT !.key = keep(ToHex(p.txData))], ok |-> TRUE]
        ELSE LET sk == GetSharedKey(m.from, m.to)
                 p2 == [p1 EXCEPT !.encryptedKey = p.txData, !.sharedKey = sk]
                 d  == Decrypt(p.txData, sk)
             IN  IF sk = NoKey \/ d = Undef
                   THEN [obj |-> p2, ok |-> FALSE]
                   ELSE [obj |-> [p2 EXCEPT !.key = keep(ToHex(d)),
                                            !.permissionKey = keep(ToHex(d))],
                         ok |-> TRUE]

\* The then-callback of _processTxInfo on object p: the object as it leaves
\* it, and whether the promise is fulfilled (with p) or rejected.  matches is
\* always an object, so 'unknown tx participants' is never the rejection.
ProcessTxInfo(p, lk, arrival) ==
  LET m  == LookupParties(lk, p.addressesFrom, p.addressesTo, arrival)
      p1 == [p EXCEPT !.from = m.from, !.to = m.to]
  IN  IF p.txType = "public"
        THEN [obj |-> [p1 EXCEPT !.key = ToHex(p.txData)], ok |-> TRUE]
        ELSE LET sk == GetSharedKey(m.from, m.to)
                 p2 == [p1 EXCEPT !.encryptedKey = p.txData, !.sharedKey = sk]
                 d  == Decrypt(p.txData, sk)
             IN  IF sk = NoKey \/ d = Undef
                   THEN [obj |-> p2, ok |-> FALSE]
                   ELSE [obj |-> [p2 EXCEPT !.key = ToHex(d),
                                            !.permissionKey = ToHex(d)],
                         ok |-> TRUE]

\* ------------------------------------------------------------------ helpers

\* Mutant of GetSuccessful: Q.all in place of Q.allSettled, one rejected task
\* fails them all.
GetAllOrNothing(ts) ==
  IF \E i \in DOMAIN ts : ts[i].st = "rejected"
    THEN << >>
    ELSE [i \in DOMAIN ts |-> ts[i].obj]

\* getSuccessful(tasks): the values of the fulfilled promises, in task order.
RECURSIVE GetSuccessful(_)
GetSuccessful(ts) ==
  IF ts = << >>
    THEN << >>
    ELSE LET rest == GetSuccessful(Tail(ts))
         IN  IF Head(ts).st = "fulfilled" THEN << Head(ts).obj >> \o rest ELSE rest

\* Mutant of PluckKey: the keys of the public objects before all others.
PluckKeyPublicFirst(h, refs) ==
  LET isPublic(o) == h[o].txType = "public"
      isPermission(o) == h[o].txType # "public"
      ordered == SelectSeq(refs, isPublic) \o SelectSeq(refs, isPermission)
  IN  [i \in DOMAIN ordered |-> h[ordered[i]].key]

\* pluck(objects, 'key') over references into heap h.
PluckKey(h, refs) == [i \in DOMAIN refs |-> h[refs[i]].key]

\* parsedTxs.forEach(function (p, i) { p._pIdx = i }): an object that occurs
\* more than once keeps the index of its last occurrence.
AssignIdx(h, refs) ==
  [o \in DOMAIN h |->
     IF \E i \in DOMAIN refs : refs[i] = o
       THEN [h[o] EXCEPT !.pIdx = Max({ i \in DOMAIN refs : refs[i] = o }) - 1]
       ELSE h[o]]

\* Mutant of GetManyInvocations: one keeper call per key.
GetManyPerKey(n, keys) == n + Len(keys)

\* this.fetchFiles(keys) invokes keeper.getMany once: the new invocation count.
GetManyInvocations(n, keys) == n + 1

\* Mutant of Emit: no listener re-emits the object as 'file'.
EmitNamedOnly(ev, name, ref) == Append(ev, [name |-> name, obj |-> ref])

\* self.emit(name, obj), and the listener that the constructor binds to every
\* FILE_EVENTS name, which re-emits the object as 'file'.
Emit(ev, name, ref) ==
  ev \o << [name |-> name, obj |-> ref], [name |-> "file", obj |-> ref] >>

\* The comparator of results.sort: a._pIdx - b._pIdx, NaN when either is
\* undefined, which sort takes as 0.
SortCompare(a, b) == IF a = NoIdx \/ b = NoIdx THEN 0 ELSE a - b

\* One step of an insertion sort: x goes behind the last element that does not
\* compare greater than it (insertion order kept among equals).
RECURSIVE InsertSorted(_, _, _)
InsertSorted(h, sorted, x) ==
  IF sorted = << >>
    THEN << x >>
    ELSE LET last == sorted[Len(sorted)]
         IN  IF SortCompare(h[last.obj].pIdx, h[x.obj].pIdx) > 0
               THEN InsertSorted(h, SubSeq(sorted, 1, Len(sorted) - 1), x)
                      \o << last >>
               ELSE sorted \o << x >>

RECURSIVE SortFrom(_, _, _)
SortFrom(h, sorted, rest) ==
  IF rest = << >>
    THEN sorted
    ELSE SortFrom(h, InsertSorted(h, sorted, Head(rest)), Tail(rest))

\* results.sort(function (a, b) { return a._pIdx - b._pIdx })
SortResults(h, rs) == SortFrom(h, << >>, rs)

\* results.forEach(function (p) { delete p._pIdx })
DeleteIdx(h, rs) ==
  [o \in DOMAIN h |->
     IF \E i \in DOMAIN rs : rs[i].obj = o
       THEN [h[o] EXCEPT !.pIdx = NoIdx]
       ELSE h[o]]

\* ----------------------------------------------- load: the first round

\* Mutant of Round1Item: the shared-key check comes before the public branch.
Round1ItemKeyFirst(st, ref, data) ==
  LET parsed == st.heap[ref]
  IN  IF data = Undef \/ parsed.sharedKey = NoKey
        THEN st
        ELSE IF parsed.txType = "public"
          THEN [st EXCEPT
                  !.heap = [@ EXCEPT ![ref].data = data],
                  !.events = Emit(@, "file:public", ref),
                  !.results = Append(@, [obj |-> ref, of |-> ref])]
          ELSE LET perm == Recover(data, parsed.sharedKey)
                   h1   == [st.heap EXCEPT ![ref].encryptedPermission = data]
               IN  IF perm = Undef
                     THEN [st EXCEPT !.heap = h1]
                     ELSE [st EXCEPT
                             !.heap = [h1 EXCEPT
                                         ![ref].permission = perm,
                                         ![ref].key = FileKeyString(perm)],
                             !.shared = Append(@, ref),
                             !.events = Emit(@, "file:permission", ref)]

\* Mutant of Round1Item: no check that the keeper had the key.
Round1ItemNoAbsentCheck(st, ref, data) ==
  LET parsed == st.heap[ref]
  IN  IF parsed.txType = "public"
        THEN [st EXCEPT
                !.heap = [@ EXCEPT ![ref].data = data],
                !.events = Emit(@, "file:public", ref),
                !.results = Append(@, [obj |-> ref, of |-> ref])]
        ELSE IF parsed.sharedKey = NoKey
          THEN st
          ELSE LET perm == Recover(data, parsed.sharedKey)
                   h1   == [st.heap EXCEPT ![ref].encryptedPermission = data]
               IN  IF perm = Undef
                     THEN [st EXCEPT !.heap = h1]
                     ELSE [st EXCEPT
                             !.heap = [h1 EXCEPT
                                         ![ref].permission = perm,
                                         ![ref].key = FileKeyString(perm)],
                             !.shared = Append(@, ref),
                             !.events = Emit(@, "file:permission", ref)]

\* Mutant of Round1Item: an intent whose permission is not recovered is kept
\* for the second round all the same.
Round1ItemKeepUnrecovered(st, ref, data) ==
  LET parsed == st.heap[ref]
  IN  IF data = Undef
        THEN st
        ELSE IF parsed.txType = "public"
          THEN [st EXCEPT
                  !.heap = [@ EXCEPT ![ref].data = data],
                  !.events = Emit(@, "file:public", ref),
                  !.results = Append(@, [obj |-> ref, of |-> ref])]
          ELSE IF parsed.sharedKey = NoKey
            THEN st
            ELSE LET perm == Recover(data, parsed.sharedKey)
                     h1   == [st.heap EXCEPT ![ref].encryptedPermission = data]
                 IN  [st EXCEPT
                        !.heap = [h1 EXCEPT
                                    ![ref].permission = perm,
                                    ![ref].key = FileKeyString(perm)],
                        !.shared = Append(@, ref),
                        !.events = Emit(@, "file:permission", ref)]

\* The body of fetched.forEach for parsedTxs[i] = ref and fetched[i] = data,
\* on the working state st = [heap, results, shared, events].
Round1Item(st, ref, data) ==
  LET parsed == st.heap[ref]
  IN  IF data = Undef
        THEN st
        ELSE IF parsed.txType = "public"
          THEN [st EXCEPT
                  !.heap = [@ EXCEPT ![ref].data = data],
                  !.events = Emit(@, "file:public", ref),
                  !.results = Append(@, [obj |-> ref, of |-> ref])]
          ELSE IF parsed.sharedKey = NoKey
            THEN st
            ELSE LET perm == Recover(data, parsed.sharedKey)
                     h1   == [st.heap EXCEPT ![ref].encryptedPermission = data]
                 IN  IF perm = Undef
                       THEN [st EXCEPT !.heap = h1]
                       ELSE [st EXCEPT
                               !.heap = [h1 EXCEPT
                                           ![ref].permission = perm,
                                           ![ref].key = FileKeyString(perm)],
                               !.shared = Append(@, ref),
                               !.events = Emit(@, "file:permission", ref)]

RECURSIVE Round1(_, _, _, _)
Round1(st, refs, fetched, i) ==
  IF i > Len(refs)
    THEN st
    ELSE Round1(Round1Item(st, refs[i], fetched[i]), refs, fetched, i + 1)

\* ---------------------------------------------- load: the second round

\* Mutant of SharedFileData: the file is passed on without decrypting it.
SharedFileAsIs(file, decryptionKey) == file

\* utils.decrypt(file, decryptionKey) when the permission carries a key, the
\* file as it is otherwise; Undef when decrypt throws.
SharedFileData(file, decryptionKey) ==
  IF decryptionKey # NoKey THEN Decrypt(file, decryptionKey) ELSE file

\* The body of sharedFiles.forEach for shared[idx] = ref and sharedFiles[idx] =
\* file.  The copy extend({}, shared[idx]) is a new object, put on the heap
\* when it is pushed to results.
Round2Item(st, ref, file) ==
  LET src  == st.heap[ref]
      data == SharedFileData(file, DecryptionKeyBuf(src.permission))
      copy == [src EXCEPT !.key = FileKeyString(src.permission),
                          !.encryptedData = file,
                          !.data = data]
      new  == Len(st.heap) + 1
  IN  IF file = Undef \/ data = Undef
        THEN st
        ELSE [st EXCEPT
                !.heap = Append(@, copy),
                !.events = Emit(@, "file:shared", new),
                !.results = Append(@, [obj |-> new, of |-> ref])]

RECURSIVE Round2(_, _, _, _)
Round2(st, refs, files, i) ==
  IF i > Len(refs)
    THEN st
    ELSE Round2(Round2Item(st, refs[i], files[i]), refs, files, i + 1)

\* ------------------------------------------------------------ load, by step

\* allAddrs.map(self.lookup): the lookups _lookupParties issues for intent p,
\* one per address of from.concat(to) (a falsy address gets a rejected
\* promise in place of a lookup); none without this.lookup.
IssuedLookups(lk, p) ==
  IF lk THEN Len(p.addressesFrom) + Len(p.addressesTo) ELSE 0

\* The positions 1..n that are in S, in ascending order.
RECURSIVE Ascending(_, _)
Ascending(S, n) ==
  IF n = 0
    THEN << >>
    ELSE Ascending(S, n - 1) \o (IF n \in S THEN << n >> ELSE << >>)

\* The orders in which n lookups can settle: the sequences that list every
\* position of from.concat(to) once.
ArrivalOrders(n) ==
  { f \in [1..n -> 1..n] : \A i, j \in 1..n : i # j => f[i] # f[j] }

\* load(txs), its synchronous part: txs.map(this._parseTx) parses every raw
\* transaction (a new object each) or takes the object that is already parsed,
\* rejects what does not parse, and _processTxInfo issues every lookup of every
\* transaction before any answer is looked at.
LoadStart(c, inp) ==
  LET isNew(e) == ~Validate(e) /\ Parseable(e.raw)
      fresh    == SelectSeq(inp, isNew)
      newRef(i) == Len(heap) + Cardinality({ j \in 1..i : isNew(inp[j]) })
  IN  /\ pc[c] = "idle"
      /\ heap' = heap \o [i \in DOMAIN fresh |-> ParsedOf(fresh[i].raw)]
      /\ tasks' = [tasks EXCEPT ![c] =
           [i \in DOMAIN inp |->
              IF Validate(inp[i])
                THEN [st |-> "pending", obj |-> inp[i].ref,
                      lookups |-> IssuedLookups(hasLookup, heap[inp[i].ref]),
                      arrival |-> << >>]
                ELSE IF Parseable(inp[i].raw)
                  THEN [st |-> "pending", obj |-> newRef(i),
                        lookups |-> IssuedLookups(hasLookup, ParsedOf(inp[i].raw)),
                        arrival |-> << >>]
                  ELSE [st |-> "rejected", obj |-> 0,
                        lookups |-> 0, arrival |-> << >>]]]
      /\ input' = [input EXCEPT ![c] = inp]
      /\ pc' = [pc EXCEPT ![c] = "parsing"]
      /\ UNCHANGED << hasLookup, parsedTxs, shared, results, req1, req2,
                      getManyCalls, keeperFailed, events, ret >>

Load(c, inp) == LoadStart(c, inp) /\ UNCHANGED streamVars

\* The lookups of transaction i have all settled, in the order arr:
\* _lookupParties' and _processTxInfo's callbacks run on its object.
ProcessTxSettled(c, i, arr) ==
  /\ pc[c] = "parsing"
  /\ i \in DOMAIN tasks[c]
  /\ tasks[c][i].st = "pending"
  /\ LET o == tasks[c][i].obj
         r == ProcessTxInfo(heap[o], hasLookup, arr)
     IN  /\ heap' = [heap EXCEPT ![o] = r.obj]
         /\ tasks' = [tasks EXCEPT
                        ![c][i].st = IF r.ok THEN "fulfilled" ELSE "rejected",
                        ![c][i].arrival = arr]
  /\ UNCHANGED << hasLookup, pc, input, parsedTxs, shared, results, req1, req2,
                  getManyCalls, keeperFailed, events, ret >>
  /\ UNCHANGED streamVars

\* The same, the lookups settling in address order.
ProcessTx(c, i) ==
  /\ i \in DOMAIN tasks[c]
  /\ ProcessTxSettled(c, i, Ascending(1..tasks[c][i].lookups, tasks[c][i].lookups))

\* The same, the lookups settling in any order.
ProcessTxAnyOrder(c, i) ==
  /\ i \in DOMAIN tasks[c]
  /\ pc[c] = "parsing"
  /\ tasks[c][i].st = "pending"
  /\ \E arr \in ArrivalOrders(tasks[c][i].lookups) : ProcessTxSettled(c, i, arr)

\* Every task has settled: getSuccessful's callback and load's first then.
Then1(c) ==
  /\ pc[c] = "parsing"
  /\ \A i \in DOMAIN tasks[c] : tasks[c][i].st # "pending"
  /\ LET parsed == GetSuccessful(tasks[c])
         h      == AssignIdx(heap, parsed)
     IN  /\ parsedTxs' = [parsedTxs EXCEPT ![c] = parsed]
         /\ IF parsed = << >>
              THEN /\ pc' = [pc EXCEPT ![c] = "then2"]
                   /\ UNCHANGED << heap, req1, getManyCalls >>
              ELSE /\ heap' = h
                   /\ req1' = [req1 EXCEPT ![c] = PluckKey(h, parsed)]
                   /\ getManyCalls' = [getManyCalls EXCEPT ![c] =
                        GetManyInvocations(@, PluckKey(h, parsed))]
                   /\ pc' = [pc EXCEPT ![c] = "fetch1"]
  /\ UNCHANGED << hasLookup, input, tasks, shared, results, req2,
                  keeperFailed, events, ret >>
  /\ UNCHANGED streamVars

\* keeper.getMany rejects (either round): fetchFiles rethrows, no then of load
\* handles it, load rejects.
KeeperFail(c) ==
  /\ pc[c] \in {"fetch1", "fetch2"}
  /\ pc' = [pc EXCEPT ![c] = "rejected"]
  /\ keeperFailed' = [keeperFailed EXCEPT ![c] = TRUE]
  /\ UNCHANGED << hasLookup, heap, input, tasks, parsedTxs, shared, results,
                  req1, req2, getManyCalls, events, ret >>
  /\ UNCHANGED streamVars

\* load's second then: on the first getMany's answer, or on undefined when
\* nothing parsed.
Then2(c) ==
  /\ pc[c] \in {"fetch1", "then2"}
  /\ IF pc[c] = "then2"
       THEN /\ pc' = [pc EXCEPT ![c] = "then3"]
            /\ UNCHANGED << heap, shared, results, events, req2, getManyCalls >>
       ELSE LET fetched == [i \in DOMAIN req1[c] |-> KeeperGet(req1[c][i])]
                st == Round1([heap |-> heap, results |-> results[c],
                              shared |-> shared[c], events |-> events[c]],
                             parsedTxs[c], fetched, 1)
            IN  /\ heap' = st.heap
                /\ shared' = [shared EXCEPT ![c] = st.shared]
                /\ results' = [results EXCEPT ![c] = st.results]
                /\ events' = [events EXCEPT ![c] = st.events]
                /\ IF st.shared # << >>
                     THEN /\ req2' = [req2 EXCEPT ![c] =
                                        PluckKey(st.heap, st.shared)]
                          /\ getManyCalls' = [getManyCalls EXCEPT ![c] =
                               GetManyInvocations(@, PluckKey(st.heap, st.shared))]
                          /\ pc' = [pc EXCEPT ![c] = "fetch2"]
                     ELSE /\ pc' = [pc EXCEPT ![c] = "then3"]
                          /\ UNCHANGED << req2, getManyCalls >>
  /\ UNCHANGED << hasLookup, input, tasks, parsedTxs, req1, keeperFailed, ret >>
  /\ UNCHANGED streamVars

\* load's third then: on the second getMany's answer, or on undefined when
\* there was no second round; sorts, deletes _pIdx and resolves.
Then3(c) ==
  /\ pc[c] \in {"fetch2", "then3"}
  /\ LET files == [i \in DOMAIN req2[c] |-> KeeperGet(req2[c][i])]
         st0 == [heap |-> heap, results |-> results[c],
                 shared |-> shared[c], events |-> events[c]]
         st == IF pc[c] = "fetch2" THEN Round2(st0, shared[c], files, 1) ELSE st0
         sorted == SortResults(st.heap, st.results)
         h == DeleteIdx(st.heap, sorted)
     IN  /\ heap' = h
         /\ results' = [results EXCEPT ![c] = sorted]
         /\ events' = [events EXCEPT ![c] = st.events]
         /\ ret' = [ret EXCEPT ![c] =
              [i \in DOMAIN sorted |->
                 [item |-> h[sorted[i].obj], of |-> sorted[i].of,
                  sortIdx |-> st.heap[sorted[i].obj].pIdx]]]
  /\ pc' = [pc EXCEPT ![c] = "resolved"]
  /\ UNCHANGED << hasLookup, input, tasks, parsedTxs, shared, req1, req2,
                  getManyCalls, keeperFailed >>
  /\ UNCHANGED streamVars

\* ------------------------------------------------------- the initial state

\* Objects a caller already holds, as TxInfo.parse returned them earlier.
CallerParsed == << ParsedOf("pub1"), ParsedOf("perm1") >>

\* What a caller can put into a batch: any raw transaction, or a reference to
\* one of the objects it holds.
Elements == { Raw(r) : r \in RawTxs } \cup { Ref(h) : h \in DOMAIN CallerParsed }

SeqsUpTo(S, n) == UNION { [1..k -> S] : k \in 0..n }

\* The Loader after construction, no call made and nothing written yet.
InitLoader ==
  /\ hasLookup \in BOOLEAN
  /\ pc = [c \in AllCalls |-> "idle"]
  /\ input = [c \in AllCalls |-> << >>]
  /\ tasks = [c \in AllCalls |-> << >>]
  /\ parsedTxs = [c \in AllCalls |-> << >>]
  /\ shared = [c \in AllCalls |-> << >>]
  /\ results = [c \in AllCalls |-> << >>]
  /\ req1 = [c \in AllCalls |-> << >>]
  /\ req2 = [c \in AllCalls |-> << >>]
  /\ getManyCalls = [c \in AllCalls |-> 0]
  /\ keeperFailed = [c \in AllCalls |-> FALSE]
  /\ events = [c \in AllCalls |-> << >>]
  /\ ret = [c \in AllCalls |-> << >>]
  /\ inbox = << >>
  /\ writing = 0
  /\ pushed = << >>
  /\ errors = << >>
  /\ doneCalls = [c \in AllCalls |-> 0]
  /\ unit = [c \in AllCalls |-> "none"]

Init ==
  /\ heap = CallerParsed
  /\ InitLoader

\* ------------------------------------------- one load call, any batch

\* A caller invokes load once, with any batch.
LoadBatch ==
  /\ pc[1] = "idle"
  /\ \E inp \in SeqsUpTo(Elements, MaxBatch) : Load(1, inp)

\* The tasks of a single call are processed in input order here.  The steps
\* of different tasks commute: each reads only what TxInfo.parse put on its
\* object and writes the same values whenever it runs, so every other order
\* leads to the same state when all tasks have settled.  SpecAnyOrder takes
\* the tasks of the single call in every order, as do SpecConc, SpecSeq,
\* SpecStream and SpecLookups for theirs.
ProcessNextTx(c, i) ==
  /\ \A j \in 1..(i - 1) : j \in DOMAIN tasks[c] => tasks[c][j].st # "pending"
  /\ ProcessTx(c, i)

Next ==
  \/ LoadBatch
  \/ \E i \in 1..MaxBatch : ProcessNextTx(1, i)
  \/ Then1(1)
  \/ KeeperFail(1)
  \/ Then2(1)
  \/ Then3(1)

Spec == Init /\ [][Next]_vars

NextAnyOrder ==
  \/ LoadBatch
  \/ \E i \in 1..MaxBatch : ProcessTx(1, i)
  \/ Then1(1)
  \/ KeeperFail(1)
  \/ Then2(1)
  \/ Then3(1)

\* One load call, any batch, its tasks settling in any order.
SpecAnyOrder == Init /\ [][NextAnyOrder]_vars

\* ------------------------------------- load calls in flight together

\* What the callers of concurrent calls put into a batch: raw transactions, or
\* the objects they hold, which several calls may be given.
ConcElements ==
  { Raw("bad"), Raw("pub1"), Raw("perm1") }
    \cup { Ref(h) : h \in DOMAIN CallerParsed }

\* A caller invokes load while other calls may be in flight.
LoadConcurrent(c) ==
  /\ pc[c] = "idle"
  /\ \E inp \in SeqsUpTo(ConcElements, MaxConcBatch) : Load(c, inp)

NextConc ==
  \/ \E c \in Calls : LoadConcurrent(c)
  \/ \E c \in Calls : \E i \in 1..MaxConcBatch : ProcessTx(c, i)
  \/ \E c \in Calls : Then1(c)
  \/ \E c \in Calls : KeeperFail(c)
  \/ \E c \in Calls : Then2(c)
  \/ \E c \in Calls : Then3(c)

\* Load calls interleave at every callback boundary.
SpecConc == Init /\ [][NextConc]_vars

\* --------------------------------------- load calls one after another

\* The first call is given raw transactions.
LoadRaw ==
  /\ pc[1] = "idle"
  /\ \E inp \in SeqsUpTo({ Raw(r) : r \in RawTxs }, MaxConcBatch) : Load(1, inp)

\* The parsed intents of call c's batch, in input order (the raw transaction
\* itself where it did not parse).
IntentsOf(c) ==
  [i \in DOMAIN input[c] |->
     IF tasks[c][i].obj # 0 THEN Ref(tasks[c][i].obj) ELSE input[c][i]]

\* The items call c resolved with.
ReturnedOf(c) == [k \in DOMAIN results[c] |-> Ref(results[c][k].obj)]

\* A later call is given the intents that the call before it parsed and
\* processed, once that call has settled.
LoadIntents(c) ==
  /\ c > 1
  /\ pc[c] = "idle"
  /\ pc[c - 1] \in {"resolved", "rejected"}
  /\ Load(c, IntentsOf(c - 1))

\* A later call is given the items that the call before it resolved with.
LoadReturned(c) ==
  /\ c > 1
  /\ pc[c] = "idle"
  /\ pc[c - 1] = "resolved"
  /\ Load(c, ReturnedOf(c - 1))

NextSeq ==
  \/ LoadRaw
  \/ \E c \in Calls : LoadIntents(c)
  \/ \E c \in Calls : LoadReturned(c)
  \/ \E c \in Calls : \E i \in 1..MaxConcBatch : ProcessTx(c, i)
  \/ \E c \in Calls : Then1(c)
  \/ \E c \in Calls : KeeperFail(c)
  \/ \E c \in Calls : Then2(c)
  \/ \E c \in Calls : Then3(c)

\* Load calls follow one another, each on what the one before it parsed.
SpecSeq == Init /\ [][NextSeq]_vars

\* ----------------------------------- lookups settling in any order

\* Transactions with two to four addresses, with and without identities.
LookupElements ==
  { Raw("pub1"), Raw("perm1"), Raw("perm2"), Raw("permMiss") }

\* A caller invokes load on raw transactions.
LoadLookups ==
  /\ pc[1] = "idle"
  /\ \E inp \in SeqsUpTo(LookupElements, MaxConcBatch) : Load(1, inp)

NextLookups ==
  \/ LoadLookups
  \/ \E i \in 1..MaxConcBatch : ProcessTxAnyOrder(1, i)
  \/ Then1(1)
  \/ KeeperFail(1)
  \/ Then2(1)
  \/ Then3(1)

\* One load call whose identity lookups settle in any order.
SpecLookups == Init /\ [][NextLookups]_vars

\* ------------------------------ one intent, any parties (_lookupParties)

\* Most addresses on one side of a transaction.
MaxAddrs == 2

\* The addresses a transaction can carry: a falsy one, one that no identity
\* answers to, and those of the four identities.
Addresses == { "", "ax", "a1", "a2", "a3", "a4" }

AddressLists == SeqsUpTo(Addresses, MaxAddrs) \ { << >> }

\* A parsed intent of the given type between the given addresses; a permission
\* intent's payload is encrypted under the secret of identities 1 and 2.
PartyIntent(type, from, to) ==
  [ ParsedOf("perm1") EXCEPT
      !.txId = "party",
      !.txType = type,
      !.txData = IF type = "public" THEN "B_f1" ELSE "EK1",
      !.addressesFrom = from,
      !.addressesTo = to ]

\* The caller holds one parsed intent, of any type and between any parties.
InitParties ==
  /\ \E type \in {"public", "permission"} :
       \E from \in AddressLists : \E to \in AddressLists :
          heap = << PartyIntent(type, from, to) >>
  /\ InitLoader

\* load(intent) on the intent the caller holds.
LoadParty ==
  /\ pc[1] = "idle"
  /\ Load(1, << Ref(1) >>)

NextParties ==
  \/ LoadParty
  \/ ProcessTx(1, 1)
  \/ Then1(1)

\* _parseTx, _processTxInfo, _lookupParties and _getSharedKey on one intent,
\* up to the first batched fetch.
SpecParties == InitParties /\ [][NextParties]_vars

\* ------------------------------------------------- the Transform stage

\* What the upstream writes as one unit: one or more transactions.
StreamElements == { Raw("bad"), Raw("pub1"), Raw("perm1") }

StreamUnits ==
  SeqsUpTo(StreamElements, MaxConcBatch) \ { << >> }

\* The stage calls this._transform(tx, encoding, done) for unit u, which calls
\* this.load(tx): load's synchronous part, on the stage's state st (the
\* stream variables after the step that led here).
StartTransform(u, inp, st) ==
  /\ LoadStart(u, inp)
  /\ inbox' = st.inbox
  /\ writing' = u
  /\ unit' = [st.unit EXCEPT ![u] = "transforming"]

\* done(), as the Transform base class takes it (afterTransform): with no
\* write callback pending it emits 'no writecb in Transform class'; otherwise
\* it acknowledges the pending write, and the Writable side hands the next
\* buffered unit, if any, to _transform.  u is the unit whose _transform calls
\* done, un its place in unit after the call, errs the errors before it.
Done(u, un, errs) ==
  /\ doneCalls' = [doneCalls EXCEPT ![u] = @ + 1]
  /\ IF writing = 0
       THEN /\ errors' = Append(errs, [unit |-> u, kind |-> "no writecb"])
            /\ unit' = [unit EXCEPT ![u] = un]
            /\ UNCHANGED << inbox, writing >>
            /\ UNCHANGED loadVars
       ELSE /\ errors' = errs
            /\ IF inbox = << >>
                 THEN /\ writing' = 0
                      /\ unit' = [unit EXCEPT ![u] = un]
                      /\ UNCHANGED inbox
                      /\ UNCHANGED loadVars
                 ELSE StartTransform(Head(inbox), input[Head(inbox)],
                                     [inbox |-> Tail(inbox),
                                      unit |-> [unit EXCEPT ![u] = un]])

\* The upstream writes unit u (units are written in order): the Writable side
\* hands it to _transform when no write is pending, and buffers it otherwise.
Write(u, inp) ==
  /\ unit[u] = "none"
  /\ u > 1 => unit[u - 1] # "none"
  /\ IF writing = 0
       THEN StartTransform(u, inp, [inbox |-> inbox, unit |-> unit])
       ELSE /\ inbox' = Append(inbox, u)
            /\ unit' = [unit EXCEPT ![u] = "buffered"]
            /\ input' = [input EXCEPT ![u] = inp]
            /\ UNCHANGED << hasLookup, heap, pc, tasks, parsedTxs, shared,
                            results, req1, req2, getManyCalls, keeperFailed,
                            events, ret, writing >>
  /\ UNCHANGED << pushed, errors, doneCalls >>

WriteUnit(u) == \E inp \in StreamUnits : Write(u, inp)

\* load resolved: the handler given to .done pushes every file, then calls
\* done().
TransformResolved(u) ==
  /\ unit[u] = "transforming"
  /\ pc[u] = "resolved"
  /\ pushed' = pushed \o [k \in DOMAIN ret[u] |->
                            [unit |-> u, item |-> ret[u][k].item]]
  /\ Done(u, "finished", errors)

\* load rejected: the handler given to .catch emits 'error' and calls done();
\* it returns undefined, which fulfils the promise .done is called on.
TransformCatch(u) ==
  /\ unit[u] = "transforming"
  /\ pc[u] = "rejected"
  /\ Done(u, "caught", Append(errors, [unit |-> u, kind |-> "keeper"]))
  /\ UNCHANGED pushed

\* After the catch handler: the handler given to .done runs with files
\* undefined, pushes nothing and calls done().
TransformAfterCatch(u) ==
  /\ unit[u] = "caught"
  /\ Done(u, "finished", errors)
  /\ UNCHANGED pushed

NextStream ==
  \/ \E u \in Units : WriteUnit(u)
  \/ \E u \in Units : \E i \in 1..MaxConcBatch : ProcessTx(u, i)
  \/ \E u \in Units : Then1(u)
  \/ \E u \in Units : KeeperFail(u)
  \/ \E u \in Units : Then2(u)
  \/ \E u \in Units : Then3(u)
  \/ \E u \in Units : TransformResolved(u)
  \/ \E u \in Units : TransformCatch(u)
  \/ \E u \in Units : TransformAfterCatch(u)

\* The Loader as a stream stage: units are written, each is loaded, its files
\* are pushed.
SpecStream == Init /\ [][NextStream]_vars

\* ================================================================ properties

\* The transaction an input element stands for.
ElemTx(e) == IF Validate(e) THEN heap[e.ref].txId ELSE e.raw

\* The input positions of call c that hold object o.
PositionsOf(c, o) == { i \in DOMAIN tasks[c] : tasks[c][i].obj = o }

\* The items of the collection call c resolved with that derive from object o.
ItemsOf(c, o) == { k \in DOMAIN ret[c] : ret[c][k].of = o }

\* The environment's loadable transactions: the public file that is stored and,
\* when identities can be looked up, the two permissions whose whole chain
\* (parties, secret, payload, record, file) is in order.
Loadable(t) == t = "pub1" \/ (hasLookup /\ t \in {"perm1", "perm2"})

\* ---------------------------------------------------------------- C1

\* Whether the collection call c resolved with is in input order: its items
\* can be given strictly increasing input positions, each the position of the
\* transaction the item derives from.
InInputOrder(c) ==
  \E f \in [DOMAIN ret[c] -> DOMAIN input[c]] :
     /\ \A k \in DOMAIN ret[c] : tasks[c][f[k]].obj = ret[c][k].of
     /\ \A k, l \in DOMAIN ret[c] : k < l => f[k] < f[l]

\* C1: order preservation - whatever the batch, the items of the collection
\* load resolves with appear in the input order of the transactions they
\* derive from.
C1_OrderPreserved == \A c \in Calls : pc[c] = "resolved" => InInputOrder(c)

\* ---------------------------------------------------------------- C4

\* C4: partial-failure isolation - a load whose keeper calls did not fail never
\* rejects, and it resolves with exactly one item per loadable transaction of
\* the batch and none for any other: a malformed transaction among K loadable
\* ones leaves K results.
C4_PartialFailureIsolated ==
  \A c \in Calls :
     /\ pc[c] = "rejected" => keeperFailed[c]
     /\ pc[c] = "resolved" =>
          \A t \in RawTxs :
             Cardinality({ k \in DOMAIN ret[c] : ret[c][k].item.txId = t })
               = IF Loadable(t)
                   THEN Cardinality({ i \in DOMAIN input[c] :
                                        ElemTx(input[c][i]) = t })
                   ELSE 0

\* A batch of one malformed and two loadable transactions has resolved with
\* two items.
C4_Witness ==
  /\ pc[1] = "resolved"
  /\ Len(input[1]) = 3
  /\ Cardinality({ i \in DOMAIN input[1] : input[1][i] = Raw("bad") }) = 1
  /\ \A i \in DOMAIN input[1] :
       input[1][i] # Raw("bad") => Loadable(ElemTx(input[1][i]))
  /\ Len(ret[1]) = 2

\* ---------------------------------------------------------------- C6

\* C6: batch bound - one load call invokes keeper.getMany at most twice.
C6_AtMostTwoGetMany == \A c \in Calls : getManyCalls[c] <= 2

\* A full batch with several permissions has resolved after two getMany calls.
C6_Witness ==
  /\ pc[1] = "resolved"
  /\ getManyCalls[1] = 2
  /\ Len(req1[1]) = MaxBatch
  /\ Len(req2[1]) >= 2

\* ---------------------------------------------------------------- C7

\* The secret of the permission round trip for transaction t: sender A holds a
\* private key, recipient B a public key.
RoundTripSecret(t) ==
  SharedEncryptionKey(LookupResult(AddressesFromOf(t)[1]).key.priv,
                      LookupResult(AddressesToOf(t)[1]).key.value)

\* The permission record that the first-round bytes of t recover to.
RoundTripRecord(t) ==
  Recover(KeeperGet(ToHex(Decrypt(TxDataOf(t), RoundTripSecret(t)))),
          RoundTripSecret(t))

\* The case of the claim: a permission transaction between A (private key) and
\* B (public key), payload encrypted under their secret, whose record points
\* to a key K with a decryption key D, the keeper holding ciphertext C at K.
RoundTripCase(t) ==
  /\ TxTypeOf(t) = "permission"
  /\ LookupResult(AddressesFromOf(t)[1]).key.priv # 0
  /\ LookupResult(AddressesToOf(t)[1]).key.value # 0
  /\ Decrypt(TxDataOf(t), RoundTripSecret(t)) # Undef
  /\ RoundTripRecord(t) # Undef
  /\ DecryptionKeyBuf(RoundTripRecord(t)) # NoKey
  /\ KeeperGet(FileKeyString(RoundTripRecord(t))) # Undef
  /\ Decrypt(KeeperGet(FileKeyString(RoundTripRecord(t))),
             DecryptionKeyBuf(RoundTripRecord(t))) # Undef

\* C7: permission round trip - such a transaction yields one shared-file item
\* per occurrence, whose data is decrypt(C, D), C the bytes stored at K.
C7_PermissionRoundTrip ==
  \A c \in Calls : \A i \in DOMAIN input[c] :
     (/\ pc[c] = "resolved"
      /\ hasLookup
      /\ RoundTripCase(ElemTx(input[c][i])))
     => LET o    == tasks[c][i].obj
            perm == RoundTripRecord(ElemTx(input[c][i]))
            C    == KeeperGet(FileKeyString(perm))
        IN  /\ Cardinality(ItemsOf(c, o)) = Cardinality(PositionsOf(c, o))
            /\ \A k \in ItemsOf(c, o) :
                 /\ ret[c][k].item.txType = "permission"
                 /\ ret[c][k].item.permission = perm
                 /\ ret[c][k].item.key = FileKeyString(perm)
                 /\ ret[c][k].item.encryptedData = C
                 /\ ret[c][k].item.data = Decrypt(C, DecryptionKeyBuf(perm))

\* A raw round-trip transaction, between other transactions, has resolved to
\* its one shared-file item.
C7_Witness ==
  /\ pc[1] = "resolved"
  /\ hasLookup
  /\ Len(input[1]) = 3
  /\ ~Validate(input[1][2])
  /\ RoundTripCase(input[1][2].raw)
  /\ Cardinality(ItemsOf(1, tasks[1][2].obj)) = 1
  /\ \E k \in ItemsOf(1, tasks[1][2].obj) : ret[1][k].item.data = "P1"

\* ---------------------------------------------------------------- C8

\* The case of the claim: a public transaction whose key the keeper holds.
PublicCase(t) ==
  /\ TxTypeOf(t) = "public"
  /\ KeeperGet(ToHex(TxDataOf(t))) # Undef

\* C8: public round trip - a public transaction whose key returns bytes B in
\* the first fetch is in results with data B as soon as the first round is
\* processed, is in the resolved collection as a public item with data B,
\* whether or not identities can be looked up, and a batch of public
\* transactions needs no second fetch.
C8_PublicRoundTrip ==
  \A c \in Calls : \A i \in DOMAIN input[c] :
     PublicCase(ElemTx(input[c][i]))
     => LET o == tasks[c][i].obj
            B == KeeperGet(ToHex(TxDataOf(ElemTx(input[c][i]))))
        IN  /\ pc[c] \in {"fetch2", "then3"} =>
                 \E k \in DOMAIN results[c] :
                    /\ results[c][k].of = o
                    /\ heap[results[c][k].obj].data = B
            /\ pc[c] = "resolved" =>
                 /\ Cardinality(ItemsOf(c, o)) = Cardinality(PositionsOf(c, o))
                 /\ \A k \in ItemsOf(c, o) :
                      /\ ret[c][k].item.txType = "public"
                      /\ ret[c][k].item.data = B
                 /\ (\A j \in DOMAIN input[c] :
                        TxTypeOf(ElemTx(input[c][j])) = "public")
                      => getManyCalls[c] = 1

\* Without any identity lookup, a batch of public transactions has resolved
\* after one fetch, the stored one with its bytes.
C8_Witness ==
  /\ pc[1] = "resolved"
  /\ ~hasLookup
  /\ input[1] = << Raw("pubGone"), Raw("pub1") >>
  /\ getManyCalls[1] = 1
  /\ Len(ret[1]) = 1
  /\ ret[1][1].item.data = "F1"
  /\ ret[1][1].item.from = NoMatch

\* ---------------------------------------------------------------- C9

\* C9: absent-storage handling - once the first round is processed, an intent
\* whose first-round key came back absent has no event, no result item and no
\* place in shared, so no key in the second-round key list.
C9_AbsentDropped ==
  \A c \in Calls : \A k \in DOMAIN req1[c] :
     (/\ pc[c] \in {"fetch2", "then3", "resolved"}
      /\ KeeperGet(req1[c][k]) = Undef)
     => LET o == parsedTxs[c][k]
        IN  /\ \A e \in DOMAIN events[c] : events[c][e].obj # o
            /\ \A r \in DOMAIN results[c] : results[c][r].of # o
            /\ \A r \in DOMAIN ret[c] : ret[c][r].of # o
            /\ \A j \in DOMAIN shared[c] : shared[c][j] # o
            /\ Len(req2[c]) = Len(shared[c])

\* A batch whose first round had absent keys (a public one, a permission one)
\* beside a present one has gone through both rounds.
C9_Witness ==
  /\ pc[1] = "resolved"
  /\ Len(req1[1]) = 3
  /\ KeeperGet(req1[1][1]) = Undef
  /\ heap[parsedTxs[1][1]].txType = "permission"
  /\ KeeperGet(req1[1][2]) # Undef
  /\ KeeperGet(req1[1][3]) = Undef
  /\ heap[parsedTxs[1][3]].txType = "public"
  /\ Len(req2[1]) = 1
  /\ Len(ret[1]) = 1

\* ---------------------------------------------------------------- C2

\* The file a loadable transaction of the environment loads to.
ExpectedData(t) ==
  CASE t = "pub1"  -> "F1"
    [] t = "perm1" -> "P1"
    [] t = "perm2" -> "P2"
    [] OTHER       -> Undef

\* What a load call given inp resolves with when it runs alone: the loadable
\* transactions of inp in input order, each with its file.
RECURSIVE ExpectedSolo(_)
ExpectedSolo(inp) ==
  IF inp = << >>
    THEN << >>
    ELSE LET t == ElemTx(Head(inp))
         IN  (IF Loadable(t)
                THEN << [txId |-> t, data |-> ExpectedData(t)] >>
                ELSE << >>) \o ExpectedSolo(Tail(inp))

\* The collection call c resolved with, as transactions and their files.
Summary(c) ==
  [k \in DOMAIN ret[c] |->
     [txId |-> ret[c][k].item.txId, data |-> ret[c][k].item.data]]

\* ExpectedSolo is what a call that runs alone resolves with, for batches as
\* long as those of the multi-call specifications (an invariant of Spec).
SoloIsExpected ==
  (pc[1] = "resolved" /\ Len(input[1]) <= MaxConcBatch)
    => Summary(1) = ExpectedSolo(input[1])

\* C2: concurrent load calls share no mutable state - however two calls
\* interleave, also when they are given the same parsed intents, each resolves
\* with the collection it resolves with when it runs alone.
C2_CallsIndependent ==
  \A c \in Calls : pc[c] = "resolved" => Summary(c) = ExpectedSolo(input[c])

\* ---------------------------------------------------------------- C5

\* C5: systemic storage failure - a call one of whose getMany calls failed
\* rejects and resolves with nothing, and the other calls resolve with what
\* they resolve with alone.
C5_FailureRejectsOnlyItsCall ==
  \A c \in Calls :
     keeperFailed[c] =>
       /\ pc[c] = "rejected"
       /\ ret[c] = << >>
       /\ \A d \in Calls \ {c} :
            pc[d] = "resolved" => Summary(d) = ExpectedSolo(input[d])

\* ---------------------------------------------------------------- C10

\* The collection call c resolved with, every field of every item.
Items(c) == [k \in DOMAIN ret[c] |-> ret[c][k].item]

\* C10: idempotent pass-through - a call given parsed intents (the ones an
\* earlier call parsed and processed, or the items it resolved with) resolves
\* with what a call given their raw transactions resolves with: the same
\* items, field by field, as the earlier call that was given the raw ones.
C10_PassThroughIdempotent ==
  \A c \in Calls \ {1} :
     pc[c] = "resolved" =>
       /\ Summary(c) = ExpectedSolo(input[c])
       /\ pc[c - 1] = "resolved" => Items(c) = Items(c - 1)

\* A call has resolved with a public and a shared file on the intents that the
\* call before it had parsed from raw transactions and processed.
C10_Witness ==
  /\ pc[1] = "resolved"
  /\ pc[2] = "resolved"
  /\ input[1] = << Raw("perm1"), Raw("pub1") >>
  /\ input[2] = IntentsOf(1)
  /\ Len(ret[2]) = 2
  /\ ret[2][1].item.data = "P1"

\* ---------------------------------------------------------------- C3

\* The items pushed downstream for unit u, as transactions and their files.
PushedOf(u) ==
  LET own == SelectSeq(pushed, LAMBDA x : x.unit = u)
  IN  [k \in DOMAIN own |-> [txId |-> own[k].item.txId, data |-> own[k].item.data]]

\* C3: stream error handling - a keeper failure while a unit is processed is
\* surfaced as an 'error' event of the stage, and the stage is neither stopped
\* nor corrupted by it: it emits no other error, a unit's write is
\* acknowledged only by its own completion (so units are transformed one at a
\* time), and every unit whose load resolved has its files pushed.
C3_StreamSurvivesKeeperFailure ==
  /\ \A u \in Units :
       (unit[u] \in {"caught", "finished"} /\ pc[u] = "rejected")
         => \E e \in DOMAIN errors :
               errors[e] = [unit |-> u, kind |-> "keeper"]
  /\ \A e \in DOMAIN errors : errors[e].kind = "keeper"
  /\ \A u \in Units : unit[u] = "transforming" => writing = u
  /\ \A u \in Units :
       (unit[u] = "finished" /\ pc[u] = "resolved")
         => PushedOf(u) = ExpectedSolo(input[u])

\* ---------------------------------------------------------------- C11

\* The items pushed downstream for unit u, every field of every item.
PushedItems(u) ==
  LET own == SelectSeq(pushed, LAMBDA x : x.unit = u)
  IN  [k \in DOMAIN own |-> own[k].item]

\* C11: stream forwarding - once a unit's _transform has finished on a load
\* that resolved, every item of the collection was pushed downstream once, in
\* the collection's order, and no item of a unit is pushed after an item of a
\* unit written later.
C11_ForwardedInOrder ==
  /\ \A u \in Units :
       (unit[u] = "finished" /\ pc[u] = "resolved")
         => PushedItems(u) = Items(u)
  /\ \A k, l \in DOMAIN pushed :
       k < l => pushed[k].unit <= pushed[l].unit

\* ---------------------------------------------------------------- C19

\* C19: done exactly once - _transform never calls done() a second time for a
\* unit, and it has called it once when the unit is finished.
C19_DoneExactlyOnce ==
  \A u \in Units :
     /\ doneCalls[u] <= 1
     /\ unit[u] = "finished" => doneCalls[u] = 1

\* ---------------------------------------------------------------- C12

\* The events of call c with this name that carry object o.
EventsOf(c, name, o) ==
  { e \in DOMAIN events[c] : events[c][e] = [name |-> name, obj |-> o] }

\* The type-specific event that announces an item: 'file:public' for a public
\* item, 'file:shared' for a shared file.
AnnouncedBy(item) ==
  IF item.txType = "public" THEN "file:public" ELSE "file:shared"

\* C12: event contract - every item load has collected (and so every item of
\* the collection it resolves with) has been announced by its own
\* type-specific event, one event per item and none of the other type, and
\* every type-specific event is followed by one generic 'file' event that
\* carries the same object; there is no other 'file' event.
C12_EventContract ==
  \A c \in Calls :
     /\ \A k \in DOMAIN results[c] :
          LET o == results[c][k].obj
          IN  /\ Cardinality(EventsOf(c, AnnouncedBy(heap[o]), o))
                   = Cardinality({ j \in DOMAIN results[c] :
                                     results[c][j].obj = o })
              /\ EventsOf(c, IF heap[o].txType = "public"
                               THEN "file:shared" ELSE "file:public", o) = {}
     /\ pc[c] = "resolved" =>
          /\ Len(ret[c]) = Len(results[c])
          /\ \A k \in DOMAIN ret[c] : ret[c][k].item = heap[results[c][k].obj]
     /\ \A e \in DOMAIN events[c] :
          IF events[c][e].name = "file"
            THEN /\ e > 1
                 /\ events[c][e - 1].name # "file"
                 /\ events[c][e - 1].obj = events[c][e].obj
            ELSE /\ events[c][e].name
                      \in {"file:public", "file:permission", "file:shared"}
                 /\ e + 1 \in DOMAIN events[c]
                 /\ events[c][e + 1] = [name |-> "file", obj |-> events[c][e].obj]

\* A call has resolved with a public item and a shared file: three
\* type-specific events (public, permission, shared), six events in all.
C12_Witness ==
  /\ pc[1] = "resolved"
  /\ Len(ret[1]) = 2
  /\ \E k \in DOMAIN ret[1] : ret[1][k].item.txType = "public"
  /\ \E k \in DOMAIN ret[1] : ret[1][k].item.txType = "permission"
  /\ Len(events[1]) = 6
  /\ \E e \in DOMAIN events[1] : events[1][e].name = "file:shared"

\* ---------------------------------------------------------------- C13

\* The lookup key of a surviving intent: the payload in hex for a public one,
\* the decrypted permission-key pointer in hex for a permission one.
LookupKey(p) ==
  IF p.txType = "public"
    THEN ToHex(p.txData)
    ELSE ToHex(Decrypt(p.txData, p.sharedKey))

\* The surviving intents of call c, in input order.
Survivors(c) ==
  LET surv == SelectSeq(tasks[c], LAMBDA t : t.st = "fulfilled")
  IN  [k \in DOMAIN surv |-> surv[k].obj]

\* Each first-round result is attributed to the intent whose key has the same
\* position in the key list: the bytes the keeper holds under the k-th key end
\* up on the k-th surviving intent.
Round1Attributed(c) ==
  pc[c] \in {"fetch2", "then3", "resolved"} =>
    LET surv == Survivors(c)
    IN  \A k \in DOMAIN req1[c] :
           LET o == surv[k]
               d == KeeperGet(req1[c][k])
           IN  d # Undef =>
                 IF heap[o].txType = "public"
                   THEN /\ heap[o].data = d
                        /\ \E r \in DOMAIN results[c] : results[c][r].obj = o
                   ELSE heap[o].encryptedPermission = d

\* C13, as amended: the first-round key list holds the lookup keys of the
\* surviving intents in input order, public and permission intents
\* interleaved as they were given, and each first-round result is attributed
\* to the intent whose key occupies the same position.
C13_KeysInInputOrder ==
  \A c \in Calls :
     /\ pc[c] \notin {"idle", "parsing"} =>
          LET surv == Survivors(c)
          IN  req1[c] = [k \in DOMAIN surv |-> LookupKey(heap[surv[k]])]
     /\ Round1Attributed(c)

\* The first fetch of a batch that holds a permission intent before a public
\* one has been answered and processed.
C13_Witness ==
  /\ pc[1] = "resolved"
  /\ hasLookup
  /\ input[1] = << Raw("perm1"), Raw("pub1") >>
  /\ req1[1] = << "pk1", "f1" >>
  /\ Len(ret[1]) = 2

\* C13, as stated: the first-round key list holds the keys of the public
\* intents, in stable order, followed by the keys of the surviving permission
\* intents, and each first-round result is attributed by position.
C13_PublicKeysFirst ==
  \A c \in Calls :
     /\ pc[c] \notin {"idle", "parsing"} =>
          LET isPublic(o) == heap[o].txType = "public"
              isPermission(o) == heap[o].txType # "public"
              ordered == SelectSeq(Survivors(c), isPublic)
                           \o SelectSeq(Survivors(c), isPermission)
          IN  req1[c] = [k \in DOMAIN ordered |-> LookupKey(heap[ordered[k]])]
     /\ Round1Attributed(c)

\* ---------------------------------------------------------------- C14

\* Whether the lookup of an address yields an identity (a falsy address is
\* not looked up, a miss or a rejection yields nothing).
Resolves(addr) == addr # "" /\ LookupResult(addr) # NoMatch

\* The first position of addrs that resolves to an identity whose public key
\* is not skip, 0 when there is none.
FirstResolved(addrs, skip) ==
  LET ok(i) == Resolves(addrs[i]) /\ LookupResult(addrs[i]).key.value # skip
  IN  IF \E i \in DOMAIN addrs : ok(i)
        THEN CHOOSE i \in DOMAIN addrs : ok(i) /\ \A j \in 1..(i - 1) : ~ok(j)
        ELSE 0

\* The intent of the one-intent specification, once its lookups are consumed.
PartyProcessed ==
  /\ pc[1] # "idle"
  /\ tasks[1][1].st # "pending"

\* C14: identity tie-break - with a resolver, the sender is the first
\* sender-side address that resolves (none resolving, there is no sender);
\* given a sender, the recipient is the first recipient-side address that
\* resolves to another key than the sender's, results with the sender's key
\* being skipped; when every recipient-side result has the sender's key there
\* is no recipient, and so no shared secret.
C14_IdentityTieBreak ==
  (PartyProcessed /\ hasLookup) =>
    LET p  == heap[1]
        s  == FirstResolved(p.addressesFrom, 0)
        r  == FirstResolved(p.addressesTo, p.from.key.value)
    IN  /\ p.from = IF s = 0 THEN NoMatch ELSE LookupResult(p.addressesFrom[s])
        /\ s # 0 =>
             /\ p.to = IF r = 0 THEN NoMatch ELSE LookupResult(p.addressesTo[r])
             /\ r = 0 => p.sharedKey = NoKey

\* Two sender-side addresses resolve and the first is taken; the first
\* recipient-side address resolves to the sender itself and is skipped for the
\* second.
C14_Witness ==
  /\ PartyProcessed
  /\ hasLookup
  /\ heap[1].addressesFrom = << "a1", "a3" >>
  /\ heap[1].addressesTo = << "a1", "a2" >>
  /\ heap[1].from = LookupResult("a1")
  /\ heap[1].to = LookupResult("a2")

\* ---------------------------------------------------------------- C18

\* C18: shared-key derivation - for a permission intent whose sender and
\* recipient are resolved, the secret is derive(sender.priv, recipient.pub)
\* when the sender has a private key, else derive(recipient.priv, sender.pub)
\* when the recipient has one, and there is none when neither has; there is
\* none either when the sender or the recipient is absent.
C18_SharedKeyDerivation ==
  (PartyProcessed /\ heap[1].txType = "permission") =>
    LET p == heap[1]
    IN  p.sharedKey =
          IF ~IsMatch(p.from) \/ ~IsMatch(p.to)
            THEN NoKey
            ELSE IF p.from.key.priv # 0
              THEN SharedEncryptionKey(p.from.key.priv, p.to.key.value)
              ELSE IF p.to.key.priv # 0
                THEN SharedEncryptionKey(p.to.key.priv, p.from.key.value)
                ELSE NoKey

\* The recipient supplies the private key: the sender has only a public key,
\* the secret is the pair's, and the payload decrypts under it.
C18_Witness ==
  /\ PartyProcessed
  /\ heap[1].txType = "permission"
  /\ heap[1].from = LookupResult("a2")
  /\ heap[1].to = LookupResult("a1")
  /\ heap[1].sharedKey = << 1, 2 >>
  /\ heap[1].key = "pk1"
  /\ tasks[1][1].st = "fulfilled"

\* ---------------------------------------------------------------- C15

\* C15: lookup fan-out and fan-in - once a call has started, the lookups of
\* every transaction of its batch are issued, before any of them is consumed;
\* the parties of a processed transaction are those of its address positions
\* (the first sender-side address that resolves, the first recipient-side one
\* that resolves to another key), in whatever order the lookups settled; and
\* the call resolves with the collection that its input alone determines.
C15_LookupOrderIrrelevant ==
  \A c \in Calls :
     /\ pc[c] # "idle" =>
          \A i \in DOMAIN tasks[c] :
             tasks[c][i].obj # 0 =>
               /\ tasks[c][i].lookups =
                    IF hasLookup
                      THEN Len(heap[tasks[c][i].obj].addressesFrom)
                             + Len(heap[tasks[c][i].obj].addressesTo)
                      ELSE 0
               /\ \A k \in DOMAIN tasks[c][i].arrival :
                     tasks[c][i].arrival[k] \in 1..tasks[c][i].lookups
     /\ \A i \in DOMAIN tasks[c] :
          (tasks[c][i].st # "pending" /\ tasks[c][i].obj # 0 /\ hasLookup) =>
            LET p == heap[tasks[c][i].obj]
                s == FirstResolved(p.addressesFrom, 0)
                r == FirstResolved(p.addressesTo, p.from.key.value)
            IN  /\ p.from =
                     IF s = 0 THEN NoMatch ELSE LookupResult(p.addressesFrom[s])
                /\ p.to =
                     IF s = 0 \/ r = 0
                       THEN NoMatch ELSE LookupResult(p.addressesTo[r])
     /\ pc[c] = "resolved" => Summary(c) = ExpectedSolo(input[c])

\* The lookups of a transaction with four addresses settled in the reverse of
\* address order, those of the transaction after it in another order, and the
\* call resolved with both files.
C15_Witness ==
  /\ pc[1] = "resolved"
  /\ hasLookup
  /\ input[1] = << Raw("perm2"), Raw("perm1") >>
  /\ tasks[1][1].arrival = << 4, 3, 2, 1 >>
  /\ tasks[1][2].arrival = << 2, 1 >>
  /\ Len(ret[1]) = 2
  /\ ret[1][1].item.data = "P2"
  /\ ret[1][2].item.data = "P1"

\* ---------------------------------------------------------------- C16

\* The case of the claim, for a processed intent p: a non-public intent with
\* no shared secret, or whose payload does not decrypt under its secret.
Undecryptable(p) ==
  /\ p.txType # "public"
  /\ \/ p.sharedKey = NoKey
     \/ Decrypt(p.txData, p.sharedKey) = Undef

\* C16: early drop - a processed non-public intent without a shared secret
\* (every non-public intent when there is no resolver) or with an
\* undecryptable payload is rejected before the first fetch: it is not among
\* the parsed intents, the first-round key list has one key per surviving
\* intent and none for it, and it has no event and no result; a public intent
\* of the batch is never rejected.
C16_EarlyDrop ==
  \A c \in Calls : \A i \in DOMAIN tasks[c] :
     (tasks[c][i].st # "pending" /\ tasks[c][i].obj # 0) =>
       LET o == tasks[c][i].obj
       IN  /\ (~hasLookup /\ heap[o].txType # "public") => Undecryptable(heap[o])
           /\ heap[o].txType = "public" => tasks[c][i].st = "fulfilled"
           /\ Undecryptable(heap[o]) =>
                /\ tasks[c][i].st = "rejected"
                /\ heap[o].key = Undef
                /\ \A k \in DOMAIN parsedTxs[c] : parsedTxs[c][k] # o
                /\ pc[c] \notin {"idle", "parsing"} =>
                     Len(req1[c]) = Cardinality({ j \in DOMAIN tasks[c] :
                                                    tasks[c][j].st = "fulfilled" })
                /\ \A e \in DOMAIN events[c] : events[c][e].obj # o
                /\ \A r \in DOMAIN results[c] : results[c][r].of # o
                /\ \A r \in DOMAIN ret[c] : ret[c][r].of # o

\* A batch of an intent without a sender, a stored public one and an intent
\* whose payload does not decrypt has resolved with the public file alone,
\* after a first fetch of one key.
C16_Witness ==
  /\ pc[1] = "resolved"
  /\ hasLookup
  /\ input[1] = << Raw("permMiss"), Raw("pub1"), Raw("permBadKey") >>
  /\ heap[tasks[1][1].obj].sharedKey = NoKey
  /\ heap[tasks[1][3].obj].sharedKey # NoKey
  /\ req1[1] = << "f1" >>
  /\ getManyCalls[1] = 1
  /\ Len(ret[1]) = 1

\* ---------------------------------------------------------------- C17

\* The permission records recovered in the first round of call c, in
\* first-round order: for every key of a permission intent that the keeper
\* holds, what its bytes recover to under the intent's secret, where they do.
RecoveredRecords(c) ==
  LET surv == Survivors(c)
      recs == [k \in DOMAIN req1[c] |->
                 IF heap[surv[k]].txType # "public" /\ KeeperGet(req1[c][k]) # Undef
                   THEN Recover(KeeperGet(req1[c][k]), heap[surv[k]].sharedKey)
                   ELSE Undef]
  IN  SelectSeq(recs, LAMBDA r : r # Undef)

\* C17: two-round sequencing - no second fetch is issued before the first one
\* is answered and all of its results are processed; when they are, a second
\* fetch is issued if and only if some intent's permission was recovered, and
\* its key list is the file keys of the recovered records in first-round
\* order, an intent whose recovery failed contributing none.
C17_TwoRounds ==
  \A c \in Calls :
     /\ pc[c] \in {"idle", "parsing", "fetch1", "then2"} =>
          /\ req2[c] = << >>
          /\ shared[c] = << >>
          /\ getManyCalls[c] <= 1
     /\ (pc[c] \in {"fetch2", "then3", "resolved"} \/ getManyCalls[c] = 2) =>
          LET recs == RecoveredRecords(c)
          IN  /\ getManyCalls[c] = 2 <=> recs # << >>
              /\ req2[c] = [j \in DOMAIN recs |-> FileKeyString(recs[j])]
              /\ Len(shared[c]) = Len(req2[c])

\* A batch of an intent whose record does not decode and two whose records
\* are recovered has gone through a second fetch of the two file keys.
C17_Witness ==
  /\ pc[1] = "resolved"
  /\ hasLookup
  /\ input[1] = << Raw("permBadBlob"), Raw("perm1"), Raw("perm2") >>
  /\ req1[1] = << "pk3", "pk1", "pk2" >>
  /\ req2[1] = << "fk1", "fk2" >>
  /\ getManyCalls[1] = 2

\* ---------------------------------------------------------------- C20

\* C20: events and return value agree - when a call has settled, every object
\* it announced by a 'file:public' or 'file:shared' event is an item of the
\* collection it resolved with; a call that rejected announced no file.
C20_EventsMatchReturn ==
  \A c \in Calls :
     pc[c] \in {"resolved", "rejected"} =>
       \A e \in DOMAIN events[c] :
          events[c][e].name \in {"file:public", "file:shared"} =>
            /\ pc[c] = "resolved"
            /\ \E k \in DOMAIN ret[c] :
                  /\ results[c][k].obj = events[c][e].obj
                  /\ ret[c][k].item = heap[events[c][e].obj]

====
